---- MODULE Spec2Model ----
(***************************************************************************)
(* expo-custom-updater (src/index.js): the module-level updater record,    *)
(* the isUpdating flag, doUpdateIfAvailable, and one activation of the     *)
(* useCustomUpdater hook (startup chain performUpdate/init, the AppState   *)
(* listener _handleAppStateChange, the effect cleanup).                    *)
(*                                                                         *)
(* JavaScript runs the code on one event loop: a piece of code runs        *)
(* without interruption from where it is entered to its next `await` (or   *)
(* to its end).  Each action below is one such uninterrupted piece.  The   *)
(* three awaited calls of expo-updates are the only suspension points of   *)
(* doUpdateIfAvailable; their outcomes are inputs of the actions that      *)
(* resume after them.  console.log echoing (showDebugInConsole) changes    *)
(* no program state and is left out.                                       *)
(***************************************************************************)
EXTENDS Integers, Sequences, FiniteSets, TLC

(* ----------------------------- bounds ---------------------------------- *)
(* What happens to the program from outside, and how often it calls
   doUpdateIfAvailable, is bounded by one budget: every invocation of
   doUpdateIfAvailable (startup, retry, foreground, direct), every AppState
   event that starts none, every advance of the clock and the teardown take
   one unit. *)
MaxInputs == 2          \* the budget of Spec: every caller and every input
MaxSchedInputs == 3     \* the budget of SpecSched: the hook, the clock, the events
MaxLiveInputs == 3      \* the budget of SpecLive: a caller outside the hook, and the chain
MaxRetryInputs == 3     \* the budget of SpecRetry: the startup chain and direct calls

(* ------------------------- program constants --------------------------- *)
default_min_refresh_interval == 300
Epoch0 == 1000          \* the clock's first reading; lastTimeCheck starts at 0

InitialLastTimeCheckNow == Epoch0
(* line 11: lastTimeCheck: 0 *)
InitialLastTimeCheck == 0

(* The clock advances by one of these: just under, exactly, and just over the
   default refresh interval. *)
TickSteps == {default_min_refresh_interval - 1, default_min_refresh_interval,
              default_min_refresh_interval + 1}
(* The messages of the errors tried: one per place that can throw. *)
CheckErrors == {"Echeck"}                    \* checkForUpdateAsync rejects
FetchErrors == {"Efetch"}                    \* fetchUpdateAsync rejects
ReloadErrors == {"Ereload"}                  \* reloadAsync rejects
CallbackErrors == {"Ecb"}                    \* a callback throws
Errors == CheckErrors \cup FetchErrors \cup ReloadErrors \cup CallbackErrors
RetryChoices == {0, 2}                       \* the maxRetries options tried
InitialStates == {"active", "inactive"}      \* AppState.currentState at the render
EventStates == {"active", "background"}      \* the values the 'change' events carry

STask == "S"                                 \* the startup chain (performUpdate)
HTasks == {"H1"}                             \* runs of _handleAppStateChange past its guard
DTasks == {"D1"}                             \* callers outside the hook
Tasks == {STask} \cup HTasks \cup DTasks

VARIABLES
  dev,            \* __DEV__
  restarted,      \* Updates.reloadAsync() restarted the process
  isUpdating,     \* module-level flag, line 20
  lastTimeCheck,  \* updater.lastTimeCheck
  logs,           \* updater.logs
  now,            \* getUnixEpoch()
  hook,           \* "unmounted", "mounted", "torndown"
  opts,           \* the options the hook was called with
  mounted,        \* mounted.current
  subscribed,     \* the AppState subscription is registered
  appState,       \* appState.current
  isInitialMount, \* isInitialMount.current
  retryCount,     \* retryCount.current
  initPc,         \* init(): "idle", "running", "done", "caught"
  task,           \* per caller: its current invocation of doUpdateIfAvailable
  left,           \* what is left of the budget
  hist            \* bookkeeping for the properties (counters, last event, last start)

vars == <<dev, restarted, isUpdating, lastTimeCheck, logs, now, hook, opts,
          mounted, subscribed, appState, isInitialMount, retryCount, initPc, task, left, hist>>

ToStr(b) == IF b THEN "true" ELSE "false"

(* A template string `prefix ${value}` : the text and the interpolated value. *)
Fmt(prefix, value) == <<prefix, value>>

LogNothing(lg, message) == lg
LogPrepend(lg, message) == <<message>> \o lg
(* log(message), lines 26-29: push at the end. *)
Log(lg, message) == Append(lg, message)

(* getUnixEpoch(), line 35 *)
getUnixEpoch == now

(* One invocation of doUpdateIfAvailable, as its caller holds it:
   pc      where it is: "idle" (none), awaiting "check", "fetch" or "reload",
           "returned" or "thrown" (the promise is settled, the caller has not resumed)
   o       the options it was called with
   busy    whether another invocation was in flight when it was called
   calls   the calls it made to expo-updates and to beforeDownloadCallback, in order
   avail   what checkForUpdateAsync answered: "none" (no answer), "true", "false"
   outcome "none", "true", "false" (returned value) or "throw"
   path    "rejected" (line 63), "dev" (73), "unavailable" (83), "success" (93), "error" (94-99)
   cause   the message of the error caught at line 94; raised: of the error thrown at 97 *)
NoInv == [pc |-> "idle", o |-> [throwUpdateErrors |-> FALSE, force |-> FALSE, hasBeforeDownload |-> FALSE],
          busy |-> FALSE, calls |-> <<>>, avail |-> "none", outcome |-> "none",
          path |-> "none", cause |-> "none", raised |-> "none"]

InFlightPc == {"check", "fetch", "reload"}
InFlight == {t \in Tasks : task[t].pc \in InFlightPc}

DefaultOpts == [updateOnStartup |-> TRUE, minRefreshSeconds |-> default_min_refresh_interval,
                hasBeforeCheck |-> FALSE, hasBeforeDownload |-> FALSE, hasAfterCheck |-> FALSE,
                throwUpdateErrors |-> FALSE, maxRetries |-> 3]

(* The options the hook is tried with: the three callbacks all given or all
   absent; maxRetries varied where the code reads it (line 154 is reached only
   after a throw, hence only with throwUpdateErrors on the startup path). *)
OptionSets ==
  {o \in [updateOnStartup : BOOLEAN, minRefreshSeconds : {default_min_refresh_interval},
          hasBeforeCheck : BOOLEAN, hasBeforeDownload : BOOLEAN, hasAfterCheck : BOOLEAN,
          throwUpdateErrors : BOOLEAN, maxRetries : RetryChoices \cup {3}] :
     /\ o.hasBeforeCheck = o.hasBeforeDownload /\ o.hasBeforeDownload = o.hasAfterCheck
     /\ IF o.updateOnStartup /\ o.throwUpdateErrors
        THEN o.maxRetries \in RetryChoices ELSE o.maxRetries = 3}

(* The options a caller outside the hook is tried with. *)
CallOptionSets == [throwUpdateErrors : BOOLEAN, force : BOOLEAN, hasBeforeDownload : {FALSE}]

(* The options object the hook passes to doUpdateIfAvailable (lines 145-149, 215):
   force keeps its default false. *)
HookCallOpts == [throwUpdateErrors |-> opts.throwUpdateErrors, force |-> FALSE,
                 hasBeforeDownload |-> opts.hasBeforeDownload]

InitWith(budget) ==
  /\ left = budget
  /\ dev \in BOOLEAN
  /\ restarted = FALSE
  /\ isUpdating = FALSE
  /\ lastTimeCheck = InitialLastTimeCheck
  /\ logs = <<>>
  /\ now = Epoch0
  /\ hook = "unmounted"
  /\ opts = DefaultOpts
  /\ mounted = TRUE
  /\ subscribed = FALSE
  /\ appState = "active"
  /\ isInitialMount = TRUE
  /\ retryCount = 0
  /\ initPc = "idle"
  /\ task = [t \in Tasks |-> NoInv]
  /\ hist = [events |-> 0, edges |-> 0, issued |-> 0, attempts |-> 0,
             beforeCheckCalls |-> 0, afterCheckCalls |-> 0,
             ev |-> [prev |-> "none", next |-> "none", elapsed |-> 0, invoked |-> FALSE,
                     bcThrew |-> FALSE, minRefresh |-> 0],
             last |-> "none", chainErr |-> "none"]

Init == InitWith(MaxInputs)

(* ------------------------ doUpdateIfAvailable ------------------------- *)

GuardRejectsNever == FALSE
(* line 61: if (isUpdating) *)
GuardRejects == isUpdating

DevSkipsNever == FALSE
(* line 71: if (__DEV__) *)
DevSkips == dev

StampNotTaken == lastTimeCheck
(* line 68: updater.lastTimeCheck = getUnixEpoch() *)
StampAtStart == getUnixEpoch

FlagLeftSet == TRUE
(* line 102, the finally clause: isUpdating = false *)
FlagInFinally == FALSE

RethrowsAlways(o) == TRUE
RethrowsNever(o) == FALSE
(* line 96: if (throwUpdateErrors) *)
Rethrows(o) == o.throwUpdateErrors

ProceedsOnlyIfAvailable(isAvailable, force) == isAvailable
ProceedsAlways(isAvailable, force) == TRUE
(* line 82: if (!isAvailable && !force) return false *)
ProceedsToDownload(isAvailable, force) == isAvailable \/ force

Exited(t, tk, outcome, path, cause, raised) ==
  [tk EXCEPT ![t].pc = IF outcome = "throw" THEN "thrown" ELSE "returned",
             ![t].outcome = outcome, ![t].path = path,
             ![t].cause = cause, ![t].raised = raised]

(* Lines 54-78: the call, up to the first await.  lg, tk, h are the logs, the
   tasks and the bookkeeping as the caller left them in the same piece of code. *)
StartCycle(t, o, lg, tk, h) ==
  LET tk0 == [tk EXCEPT ![t] = [NoInv EXCEPT !.o = o, !.busy = (InFlight # {})]]
      h0 == [h EXCEPT !.issued = @ + 1, !.last = t]
  IN /\ left > 0
     /\ left' = left - 1
     /\ hist' = h0
     /\ IF GuardRejects
        THEN /\ logs' = Log(lg, <<"doUpdateIfAvailable: Update already in progress, skipping">>)
             /\ task' = Exited(t, tk0, "false", "rejected", "none", "none")
             /\ UNCHANGED <<isUpdating, lastTimeCheck>>
        ELSE /\ lastTimeCheck' = StampAtStart
             /\ IF DevSkips
                THEN /\ logs' = Log(lg, <<"doUpdateIfAvailable: Unable to update or check for updates in DEV">>)
                     /\ task' = Exited(t, tk0, "false", "dev", "none", "none")
                     /\ isUpdating' = FlagInFinally
                ELSE /\ logs' = Log(lg, <<"doUpdateIfAvailable: Checking for updates...">>)
                     /\ task' = [tk0 EXCEPT ![t].pc = "check", ![t].calls = <<"check">>]
                     /\ isUpdating' = TRUE

(* Lines 94-103: catch and finally. *)
CatchError(t, e, lg, tk) ==
  /\ logs' = Log(lg, Fmt("doUpdateIfAvailable: ERROR:", e))
  /\ task' = IF Rethrows(task[t].o)
             THEN Exited(t, tk, "throw", "error", e, e)
             ELSE Exited(t, tk, "false", "error", e, "none")
  /\ isUpdating' = FlagInFinally

HookFrame == UNCHANGED <<dev, restarted, now, hook, opts, mounted, subscribed,
                         appState, isInitialMount, retryCount, initPc>>
Frame == HookFrame /\ UNCHANGED left

(* await Updates.checkForUpdateAsync() resolves, lines 78-89.  cb is what the
   beforeDownloadCallback does if it is called: "ok" or the error it throws. *)
CheckReturns(t, isAvailable, cb) ==
  /\ ~restarted /\ task[t].pc = "check"
  /\ cb # "ok" => task[t].o.hasBeforeDownload /\ ProceedsToDownload(isAvailable, task[t].o.force)
  /\ LET lg1 == Log(logs, Fmt("doUpdateIfAvailable: Update available?", ToStr(isAvailable)))
         lg2 == Log(lg1, <<"doUpdateIfAvailable: Fetching Update">>)
         tka == [task EXCEPT ![t].avail = ToStr(isAvailable)]
         tkc == IF task[t].o.hasBeforeDownload
                THEN [tka EXCEPT ![t].calls = Append(@, "beforeDownload")] ELSE tka
     IN IF ~ProceedsToDownload(isAvailable, task[t].o.force)
        THEN /\ logs' = lg1
             /\ task' = Exited(t, tka, "false", "unavailable", "none", "none")
             /\ isUpdating' = FlagInFinally
        ELSE IF cb # "ok"
        THEN CatchError(t, cb, lg2, tkc)
        ELSE /\ logs' = lg2
             /\ task' = [tkc EXCEPT ![t].pc = "fetch", ![t].calls = Append(@, "fetch")]
             /\ UNCHANGED isUpdating
  /\ UNCHANGED <<lastTimeCheck, hist>>
  /\ Frame

(* await Updates.checkForUpdateAsync() rejects *)
CheckThrows(t, e) ==
  /\ ~restarted /\ task[t].pc = "check"
  /\ CatchError(t, e, logs, task)
  /\ UNCHANGED <<lastTimeCheck, hist>>
  /\ Frame

(* await Updates.fetchUpdateAsync() resolves, lines 89-91 *)
FetchReturns(t) ==
  /\ ~restarted /\ task[t].pc = "fetch"
  /\ logs' = Log(logs, <<"updateApp: Update fetched, reloading...">>)
  /\ task' = [task EXCEPT ![t].pc = "reload", ![t].calls = Append(@, "reload")]
  /\ UNCHANGED <<isUpdating, lastTimeCheck, hist>>
  /\ Frame

FetchThrows(t, e) ==
  /\ ~restarted /\ task[t].pc = "fetch"
  /\ CatchError(t, e, logs, task)
  /\ UNCHANGED <<lastTimeCheck, hist>>
  /\ Frame

(* Updates.reloadAsync() restarts the application: the JavaScript context is
   gone, nothing of this program runs any more. *)
ReloadRestarts(t) ==
  /\ ~restarted /\ task[t].pc = "reload"
  /\ restarted' = TRUE
  /\ UNCHANGED <<dev, isUpdating, lastTimeCheck, logs, now, hook, opts, mounted,
                 subscribed, appState, isInitialMount, retryCount, initPc, task, left, hist>>

ReturnAfterReloadFalse == "false"
(* line 93: return true, reached when reloadAsync has resolved *)
ReturnAfterReload == "true"

(* await Updates.reloadAsync() resolves without a restart, lines 91-93 *)
ReloadReturns(t) ==
  /\ ~restarted /\ task[t].pc = "reload"
  /\ task' = Exited(t, task, ReturnAfterReload, "success", "none", "none")
  /\ isUpdating' = FlagInFinally
  /\ UNCHANGED <<logs, lastTimeCheck, hist>>
  /\ Frame

ReloadThrows(t, e) ==
  /\ ~restarted /\ task[t].pc = "reload"
  /\ CatchError(t, e, logs, task)
  /\ UNCHANGED <<lastTimeCheck, hist>>
  /\ Frame

(* ---------------------------- useCustomUpdater ------------------------- *)

CanRetryAlways == TRUE
CanRetryOnceMore == retryCount <= opts.maxRetries
(* line 154: if (retryCount.current < maxRetries) *)
CanRetry == retryCount < opts.maxRetries

IsBackToAppFromAnywhere(nextAppState) == nextAppState = "active"
(* lines 197-198: appState.current.match(/inactive|background/) && nextAppState === 'active'.
   The unanchored pattern matches the values that contain one of the two words. *)
IsBackToApp(nextAppState) ==
  /\ appState \in {"inactive", "background"}
  /\ nextAppState = "active"

IsTimeToCheckInclusive == (getUnixEpoch - lastTimeCheck) >= opts.minRefreshSeconds
(* line 200: (getUnixEpoch() - updater.lastTimeCheck) > minRefreshSeconds *)
IsTimeToCheck == (getUnixEpoch - lastTimeCheck) > opts.minRefreshSeconds

(* The hook is rendered with options o and its effect runs (lines 131-187):
   init() up to its first await, then the listener is registered.  cur is
   AppState.currentState at the time of the render. *)
Mount(o, cur) ==
  /\ ~restarted /\ hook = "unmounted"
  /\ hook' = "mounted"
  /\ opts' = o
  /\ appState' = cur
  /\ subscribed' = TRUE
  /\ UNCHANGED <<dev, restarted, now, mounted, retryCount>>
  /\ IF o.updateOnStartup /\ isInitialMount /\ mounted
     THEN /\ isInitialMount' = FALSE
          /\ initPc' = "running"
          /\ StartCycle(STask, [throwUpdateErrors |-> o.throwUpdateErrors, force |-> FALSE,
                                hasBeforeDownload |-> o.hasBeforeDownload],
                        logs, task, [hist EXCEPT !.attempts = 1])
     ELSE UNCHANGED <<isInitialMount, initPc, isUpdating, lastTimeCheck, logs, task, left, hist>>

(* performUpdate resumes after `await doUpdateIfAvailable(...)`, lines 150-158,
   and init after `await performUpdate()`, lines 169-173. *)
PerformUpdateResume ==
  /\ ~restarted /\ initPc = "running"
  /\ task[STask].pc \in {"returned", "thrown"}
  /\ UNCHANGED <<dev, restarted, now, hook, opts, mounted, subscribed,
                 appState, isInitialMount>>
  /\ IF task[STask].pc = "returned"
     THEN /\ initPc' = "done"
          /\ UNCHANGED <<isUpdating, lastTimeCheck, logs, task, left, hist, retryCount>>
     ELSE LET e == task[STask].raised
              lg1 == Log(logs, Fmt("Update error:", e))
          IN IF CanRetry
             THEN /\ retryCount' = retryCount + 1
                  /\ StartCycle(STask, HookCallOpts, lg1, task,
                                [hist EXCEPT !.attempts = @ + 1])
                  /\ UNCHANGED initPc
             ELSE /\ logs' = Log(lg1, Fmt("Init error:", e))
                  /\ initPc' = "caught"
                  /\ hist' = [hist EXCEPT !.chainErr = e]
                  /\ UNCHANGED <<isUpdating, lastTimeCheck, task, left, retryCount>>

HandlerCaughtSilently(lg, e) == lg
(* lines 217-219: catch (e) { log(`AppState update error: ${e.message}`) } *)
HandlerCaught(lg, e) == Log(lg, Fmt("AppState update error:", e))

(* _handleAppStateChange(nextAppState), lines 193-215, up to its await.  h is
   the run of the handler that goes on past the await; bc is what the
   beforeCheckCallback does if it is called: "ok" or the error it throws. *)
AppStateChange(nextAppState, h, bc) ==
  /\ ~restarted /\ subscribed
  /\ left > 0
  /\ (mounted /\ IsBackToApp(nextAppState) /\ IsTimeToCheck) => task[h].pc = "idle"
  /\ bc # "ok" => opts.hasBeforeCheck /\ mounted /\ IsBackToApp(nextAppState) /\ IsTimeToCheck
  /\ UNCHANGED <<dev, restarted, now, hook, opts, mounted, subscribed,
                 isInitialMount, retryCount, initPc>>
  /\ IF ~mounted
     THEN UNCHANGED <<appState, isUpdating, lastTimeCheck, logs, task, left, hist>>
     ELSE LET back == IsBackToApp(nextAppState)
              due == IsTimeToCheck
              lg1 == Log(logs, <<"appStateChangeHandler: AppState:", nextAppState,
                                 "NeedToCheckForUpdate?", ToStr(back /\ due)>>)
              ev == [prev |-> appState, next |-> nextAppState,
                     elapsed |-> getUnixEpoch - lastTimeCheck,
                     minRefresh |-> opts.minRefreshSeconds,
                     invoked |-> FALSE, bcThrew |-> FALSE]
              h1 == [hist EXCEPT !.events = @ + 1, !.ev = ev,
                                 !.edges = IF back THEN @ + 1 ELSE @]
              h2 == IF opts.hasBeforeCheck
                    THEN [h1 EXCEPT !.beforeCheckCalls = @ + 1] ELSE h1
          IN /\ appState' = nextAppState
             /\ IF ~due \/ ~back
                THEN /\ logs' = IF back /\ ~due
                                THEN Log(lg1, <<"appStateChangeHandler: Skip check, within refresh time">>)
                                ELSE lg1
                     /\ hist' = h1
                     /\ left' = left - 1
                     /\ UNCHANGED <<isUpdating, lastTimeCheck, task>>
                ELSE IF bc # "ok"
                THEN /\ logs' = HandlerCaught(lg1, bc)
                     /\ hist' = [h2 EXCEPT !.ev.bcThrew = TRUE]
                     /\ left' = left - 1
                     /\ UNCHANGED <<isUpdating, lastTimeCheck, task>>
                ELSE StartCycle(h, HookCallOpts, lg1, task, [h2 EXCEPT !.ev.invoked = TRUE])

(* _handleAppStateChange resumes after `await doUpdateIfAvailable(...)`,
   lines 215-219.  ac is what the afterCheckCallback does if it is called. *)
HandlerResume(h, ac) ==
  /\ ~restarted /\ task[h].pc \in {"returned", "thrown"}
  /\ ac # "ok" => opts.hasAfterCheck /\ task[h].pc = "returned"
  /\ task' = [task EXCEPT ![h] = NoInv]
  /\ IF task[h].pc = "thrown"
     THEN /\ logs' = HandlerCaught(logs, task[h].raised)
          /\ UNCHANGED hist
     ELSE /\ logs' = IF ac # "ok" THEN HandlerCaught(logs, ac) ELSE logs
          /\ hist' = IF opts.hasAfterCheck
                     THEN [hist EXCEPT !.afterCheckCalls = @ + 1] ELSE hist
  /\ UNCHANGED <<isUpdating, lastTimeCheck>>
  /\ Frame

(* The effect's cleanup, lines 183-186. *)
Teardown ==
  /\ ~restarted /\ hook = "mounted"
  /\ left > 0
  /\ left' = left - 1
  /\ hook' = "torndown"
  /\ mounted' = FALSE
  /\ subscribed' = FALSE
  /\ UNCHANGED <<dev, restarted, isUpdating, lastTimeCheck, logs, now, opts,
                 appState, isInitialMount, retryCount, initPc, task, hist>>

(* doUpdateIfAvailable(o) called by the embedding application itself (it is
   exported, line 54), up to its first await. *)
DirectCall(d, o) ==
  /\ ~restarted /\ task[d].pc \in {"idle", "returned", "thrown"}
  /\ StartCycle(d, o, logs, task, hist)
  /\ HookFrame

(* Date.now() advances. *)
Tick(d) ==
  /\ ~restarted /\ left > 0
  /\ left' = left - 1
  /\ now' = now + d
  /\ UNCHANGED <<dev, restarted, isUpdating, lastTimeCheck, logs, hook, opts, mounted,
                 subscribed, appState, isInitialMount, retryCount, initPc, task, hist>>

(* The pieces of doUpdateIfAvailable after its awaits, for any caller. *)
CycleSteps ==
  \/ \E t \in Tasks, a \in BOOLEAN, cb \in {"ok"} \cup CallbackErrors : CheckReturns(t, a, cb)
  \/ \E t \in Tasks, e \in CheckErrors : CheckThrows(t, e)
  \/ \E t \in Tasks : FetchReturns(t)
  \/ \E t \in Tasks, e \in FetchErrors : FetchThrows(t, e)
  \/ \E t \in Tasks : ReloadRestarts(t)
  \/ \E t \in Tasks : ReloadReturns(t)
  \/ \E t \in Tasks, e \in ReloadErrors : ReloadThrows(t, e)

Next ==
  \/ \E o \in OptionSets, cur \in InitialStates : Mount(o, cur)
  \/ PerformUpdateResume
  \/ \E s \in EventStates, h \in HTasks, bc \in {"ok"} \cup CallbackErrors : AppStateChange(s, h, bc)
  \/ \E h \in HTasks, ac \in {"ok"} \cup CallbackErrors : HandlerResume(h, ac)
  \/ Teardown
  \/ \E d \in DTasks, o \in CallOptionSets : DirectCall(d, o)
  \/ \E d \in TickSteps : Tick(d)
  \/ CycleSteps

Spec == Init /\ [][Next]_vars

(* The scheduler on its own: the hook, the clock and the AppState events, with
   a budget that lets a startup cycle, an advance of the clock and an event
   follow one another. *)
SchedOptionSets == {o \in OptionSets : o.maxRetries # 2}

InitSched == InitWith(MaxSchedInputs)

NextSched ==
  \/ \E o \in SchedOptionSets, cur \in InitialStates : Mount(o, cur)
  \/ PerformUpdateResume
  \/ \E s \in EventStates, h \in HTasks, bc \in {"ok"} \cup CallbackErrors : AppStateChange(s, h, bc)
  \/ \E h \in HTasks, ac \in {"ok"} \cup CallbackErrors : HandlerResume(h, ac)
  \/ \E d \in TickSteps : Tick(d)
  \/ CycleSteps

SpecSched == InitSched /\ [][NextSched]_vars

(* The startup chain on its own, with callers outside the hook competing for
   the flag, and a budget that lets the longest chain tried run to its end. *)
RetryOptionSets == {o \in OptionSets : o.updateOnStartup}
RetryCallOptionSets == {o \in CallOptionSets : ~o.force}

InitRetry == InitWith(MaxRetryInputs)

NextRetry ==
  \/ \E o \in RetryOptionSets : Mount(o, "active")
  \/ PerformUpdateResume
  \/ \E d \in DTasks, o \in RetryCallOptionSets : DirectCall(d, o)
  \/ CycleSteps

SpecRetry == InitRetry /\ [][NextRetry]_vars

(* The same program under the assumption that every call to the update
   service completes (returns, throws, or restarts the application) and that
   the event loop runs the continuation of every settled promise.  The callers
   outside the hook leave the budget the mount and the longest chain need, so
   that the budget never stops a retry the code would make. *)
Max(S) == CHOOSE x \in S : \A y \in S : y <= x
LiveReserve ==
  IF hook = "unmounted" THEN 1 + Max(RetryChoices)
  ELSE IF initPc = "running" THEN opts.maxRetries - retryCount
  ELSE 0

InitLive == InitWith(MaxLiveInputs)

NextLive ==
  \/ \E o \in RetryOptionSets : Mount(o, "active")
  \/ PerformUpdateResume
  \/ \E d \in DTasks, o \in RetryCallOptionSets : left > LiveReserve /\ DirectCall(d, o)
  \/ CycleSteps

SpecLive ==
  /\ InitLive /\ [][NextLive]_vars
  /\ WF_vars(CycleSteps) /\ WF_vars(PerformUpdateResume)

(* ------------------------------ properties ----------------------------- *)

ExitedPc == {"returned", "thrown"}

(* The invocation of task t leaves doUpdateIfAvailable in this step. *)
ExitsNow(t) ==
  /\ task'[t].pc \in ExitedPc
  /\ \/ task[t].pc \notin ExitedPc
     \/ hist'.issued # hist.issued /\ hist'.last = t

(* An invocation is issued in this step, and passes the guard. *)
PassesGuardNow ==
  /\ hist'.issued # hist.issued
  /\ task'[hist'.last].path # "rejected"

ErrorEntry(e) == Fmt("doUpdateIfAvailable: ERROR:", e)

(* C1: at most one invocation is past the guard and not yet exited; an
   invocation issued while another is in flight returns false at once, without
   throwing (whatever throwUpdateErrors is) and without any call to
   checkForUpdateAsync, fetchUpdateAsync, reloadAsync or the callback. *)
C1_AtMostOneInFlight ==
  /\ Cardinality(InFlight) <= 1
  /\ \A t \in Tasks :
       (task[t].pc # "idle" /\ task[t].busy) =>
          /\ task[t].pc = "returned"
          /\ task[t].path = "rejected"
          /\ task[t].outcome = "false"
          /\ task[t].raised = "none"
          /\ task[t].calls = <<>>

C1_Witness ==
  \E t, u \in Tasks :
     /\ t # u
     /\ task[t].pc \in InFlightPc
     /\ task[u].busy /\ task[u].o.throwUpdateErrors
     /\ task[u].path = "rejected" /\ task[u].outcome = "false"

(* C2, as stated: after any invocation returns or throws, on every path
   (success, early return, guard-rejection, error), isUpdating is false. *)
C2_FlagFalseAfterEveryExit ==
  [][\A t \in Tasks : ExitsNow(t) => ~isUpdating']_vars

(* C2, amended: after an invocation that passed the guard returns or throws
   isUpdating is false; an invocation rejected by the guard leaves the flag as
   it found it, set, for the cycle that is in flight. *)
C2_FlagAfterExit ==
  [][\A t \in Tasks : ExitsNow(t) =>
        IF task'[t].path = "rejected"
        THEN isUpdating /\ isUpdating'
        ELSE ~isUpdating']_vars

C2_Witness ==
  \E t \in Tasks :
     /\ task[t].pc = "thrown" /\ task[t].path = "error"
     /\ ~isUpdating /\ InFlight = {}

(* C3: isUpdating is true exactly when one invocation has passed the guard and
   has not yet exited; a rejected invocation does not change the flag. *)
C3_FlagIffOneInFlight ==
  isUpdating <=> (Cardinality(InFlight) = 1)

C3_Witness ==
  /\ isUpdating
  /\ Cardinality(InFlight) = 1
  /\ \E u \in Tasks : task[u].path = "rejected" /\ task[u].pc = "returned"

(* C4: an invocation that passes the guard sets lastTimeCheck to the current
   time at its start, before it has called anything but (next) the check, in
   debug mode too; no other step writes lastTimeCheck: not the completion of a
   cycle, not a rejected invocation, not the AppState handler. *)
C4_StampOnlyAtStart ==
  [][IF PassesGuardNow
     THEN /\ lastTimeCheck' = getUnixEpoch
          /\ task'[hist'.last].calls \in {<<>>, <<"check">>}
     ELSE lastTimeCheck' = lastTimeCheck]_vars

C4_Witness ==
  \E t \in Tasks :
     /\ task[t].path = "unavailable"
     /\ lastTimeCheck = now /\ now > Epoch0

(* C5: with __DEV__ set every invocation returns false, none calls
   checkForUpdateAsync, fetchUpdateAsync or reloadAsync, and isUpdating is
   false once it has returned. *)
C5_DevNeverCallsService ==
  dev => /\ ~isUpdating
         /\ \A t \in Tasks :
              /\ task[t].calls = <<>>
              /\ task[t].pc # "idle" => task[t].pc = "returned" /\ task[t].outcome = "false"

C5_Witness ==
  /\ dev
  /\ \E t \in Tasks :
       /\ task[t].path = "dev" /\ task[t].outcome = "false"
       /\ task[t].o.force /\ task[t].o.throwUpdateErrors

(* The step is the handling of an AppState event. *)
EventNow == hist'.events # hist.events

(* The event handled in this step is a foreground edge. *)
EdgeNow == appState \in {"inactive", "background"} /\ hist'.ev.next = "active"

C7_NoEdgeNoCycle ==
  [][EventNow =>
       /\ appState' = hist'.ev.next
       /\ (appState = "active" \/ hist'.ev.next # "active") =>
             /\ hist'.issued = hist.issued
             /\ hist'.beforeCheckCalls = hist.beforeCheckCalls
             /\ hist'.afterCheckCalls = hist.afterCheckCalls
             /\ task' = task]_vars

C7_Witness ==
  /\ hist.events = 2
  /\ hist.ev.prev = "active" /\ hist.ev.next = "active"
  /\ hist.ev.elapsed > hist.ev.minRefresh
  /\ ~hist.ev.invoked
  /\ appState = "active"

(* C8: with throwUpdateErrors the startup chain that fails every time makes
   exactly maxRetries + 1 invocations, one after the other, and then raises the
   last error to init; without throwUpdateErrors it makes exactly one. *)
C8_RetryCount ==
  /\ initPc # "idle" =>
       /\ hist.attempts = retryCount + 1
       /\ hist.attempts <= opts.maxRetries + 1
       /\ ~opts.throwUpdateErrors => hist.attempts = 1
  /\ initPc = "caught" =>
       /\ opts.throwUpdateErrors
       /\ hist.attempts = opts.maxRetries + 1
       /\ task[STask].pc = "thrown"
       /\ hist.chainErr = task[STask].raised
  /\ initPc = "done" => task[STask].pc = "returned"

C8_Witness ==
  /\ initPc = "caught"
  /\ opts.maxRetries = 2
  /\ hist.attempts = 3
  /\ hist.chainErr \in Errors

(* C9: without throwUpdateErrors a failure of the check, the download, the
   reload or the beforeDownload callback makes the invocation return false; the
   entry with the error's message is the last one it appends, and isUpdating
   is false when it returns. *)
C9_ErrorSwallowed ==
  [][\A t \in Tasks :
       (ExitsNow(t) /\ task'[t].path = "error" /\ ~task'[t].o.throwUpdateErrors) =>
          /\ task'[t].pc = "returned" /\ task'[t].outcome = "false"
          /\ task'[t].raised = "none"
          /\ task'[t].cause \in Errors
          /\ Len(logs') > Len(logs)
          /\ logs'[Len(logs')] = ErrorEntry(task'[t].cause)
          /\ ~isUpdating']_vars

C9_Witness ==
  \E t \in Tasks :
     /\ task[t].path = "error" /\ ~task[t].o.throwUpdateErrors
     /\ task[t].cause \in CallbackErrors
     /\ task[t].outcome = "false"
     /\ \E i \in DOMAIN logs : logs[i] = ErrorEntry(task[t].cause)

(* C10: with throwUpdateErrors a failure of the check, the download or the
   reload is logged and then thrown again, the same error, and isUpdating is
   false by the time the invocation's promise is rejected. *)
C10_ErrorRethrown ==
  [][\A t \in Tasks :
       (ExitsNow(t) /\ task'[t].path = "error" /\ task'[t].o.throwUpdateErrors) =>
          /\ task'[t].pc = "thrown" /\ task'[t].outcome = "throw"
          /\ task'[t].cause \in Errors
          /\ task'[t].raised = task'[t].cause
          /\ logs'[Len(logs')] = ErrorEntry(task'[t].cause)
          /\ ~isUpdating']_vars

C10_Witness ==
  \E t \in Tasks :
     /\ task[t].pc = "thrown" /\ task[t].o.throwUpdateErrors
     /\ task[t].raised \in FetchErrors
     /\ ~isUpdating

Called(t, c) == \E i \in DOMAIN task[t].calls : task[t].calls[i] = c

(* C11: with force, a check that reports no update is followed by
   fetchUpdateAsync and, once that has completed, by reloadAsync; without
   force it makes the invocation return false with no call of
   fetchUpdateAsync, reloadAsync or the beforeDownload callback. *)
C11_ForceBypassesAvailability ==
  \A t \in Tasks :
     task[t].avail = "false" =>
        IF task[t].o.force
        THEN /\ task[t].path # "unavailable"
             /\ Called(t, "fetch") \/ task[t].cause \in CallbackErrors
             /\ (task[t].pc # "fetch" /\ task[t].cause \notin FetchErrors \cup CallbackErrors)
                   => Called(t, "reload")
        ELSE /\ task[t].pc = "returned" /\ task[t].outcome = "false"
             /\ task[t].calls = <<"check">>

C11_Witness ==
  \E t \in Tasks :
     /\ task[t].avail = "false" /\ task[t].o.force
     /\ task[t].calls = <<"check", "fetch", "reload">>

(* The invocation t has left reloadAsync by a normal return. *)
ReloadReturned(t) ==
  /\ task[t].pc \in ExitedPc /\ Called(t, "reload") /\ task[t].cause = "none"

(* C12, as stated: when reloadAsync returns normally instead of restarting
   the process, doUpdateIfAvailable does not report true. *)
C12_ReloadReturnIsFailure ==
  \A t \in Tasks : ReloadReturned(t) => task[t].outcome # "true"

(* C12, as the code behaves: when reloadAsync returns normally the
   invocation returns true; only a reloadAsync that throws ends the
   invocation without true (false, or the error rethrown). *)
C12_ReloadReturnIsSuccess ==
  \A t \in Tasks :
     /\ ReloadReturned(t) => task[t].pc = "returned" /\ task[t].outcome = "true"
     /\ task[t].cause \in ReloadErrors => task[t].outcome # "true"

C12_Witness ==
  \E t \in Tasks : ReloadReturned(t) /\ task[t].avail = "true" /\ task[t].outcome = "true"

(* The handler h resumes after its awaited cycle in this step (lines 215-219). *)
HandlerResumesNow(h) == task[h].pc \in ExitedPc /\ task'[h].pc = "idle"

(* C13, as stated: on a due foreground edge the before-check callback is
   invoked before the cycle starts, one cycle runs, and when it has finished
   the after-check callback is invoked, whatever the cycle's outcome.  The
   failures looked at are those of the update service, not of a callback. *)
C13_AfterCheckWhateverOutcome ==
  [][/\ (EventNow /\ hist'.issued # hist.issued) =>
          /\ hist'.issued = hist.issued + 1
          /\ opts.hasBeforeCheck => hist'.beforeCheckCalls = hist.beforeCheckCalls + 1
     /\ \A h \in HTasks :
          (HandlerResumesNow(h) /\ opts.hasAfterCheck /\ task[h].cause \notin CallbackErrors) =>
             hist'.afterCheckCalls = hist.afterCheckCalls + 1]_vars

LastLog(lg) == IF lg = <<>> THEN <<>> ELSE lg[Len(lg)]

(* C14: a foreground edge causes at most one invocation of
   doUpdateIfAvailable and none by way of retry; when that invocation throws
   (throwUpdateErrors true) or the before-check callback throws, the handler
   logs the error as "AppState update error" and ends, starting no further
   invocation and leaving the retry counter and the startup chain as they
   were. *)
C14_ForegroundNeverRetried ==
  [][/\ EventNow =>
          /\ hist'.issued \in {hist.issued, hist.issued + 1}
          /\ retryCount' = retryCount /\ hist'.attempts = hist.attempts /\ initPc' = initPc
          /\ hist'.ev.bcThrew =>
                /\ hist'.issued = hist.issued
                /\ \E e \in CallbackErrors : LastLog(logs') = Fmt("AppState update error:", e)
     /\ \A h \in HTasks :
          HandlerResumesNow(h) =>
             /\ hist'.issued = hist.issued
             /\ retryCount' = retryCount /\ hist'.attempts = hist.attempts /\ initPc' = initPc
             /\ task[h].pc = "thrown" =>
                   logs' = Append(logs, Fmt("AppState update error:", task[h].raised))]_vars

C14_Witness ==
  /\ opts.throwUpdateErrors /\ hist.ev.invoked /\ hist.issued = 1
  /\ \A h \in HTasks : task[h].pc = "idle"
  /\ LastLog(logs) = Fmt("AppState update error:", "Echeck")

(* How many times the invocation t of the table tk has called c. *)
CallCount(tk, t, c) == Cardinality({i \in DOMAIN tk[t].calls : tk[t].calls[i] = c})

(* The invocations made on behalf of the hook activation. *)
HookTasks == {STask} \cup HTasks

(* C15, as stated: once the hook activation is torn down none of its
   before-check, before-download and after-check callbacks is invoked and no
   update cycle is started on its behalf, whether by a later lifecycle event,
   by a handler that was awaiting its cycle, or by the startup chain. *)
C15_NothingAfterTeardown ==
  [][hook = "torndown" =>
       /\ hist'.beforeCheckCalls = hist.beforeCheckCalls
       /\ hist'.afterCheckCalls = hist.afterCheckCalls
       /\ hist'.attempts = hist.attempts
       /\ \A t \in HookTasks :
             /\ CallCount(task', t, "beforeDownload") = CallCount(task, t, "beforeDownload")
             /\ task[t].pc \notin InFlightPc => task'[t].pc \notin InFlightPc]_vars

StartEntry == <<"doUpdateIfAvailable: Checking for updates...">>
DevEntry == <<"doUpdateIfAvailable: Unable to update or check for updates in DEV">>
AvailEntry(a) == Fmt("doUpdateIfAvailable: Update available?", a)
FetchingEntry == <<"doUpdateIfAvailable: Fetching Update">>
FetchedEntry == <<"updateApp: Update fetched, reloading...">>

(* What a cycle writes besides its start and availability entries. *)
LaterEntries == {DevEntry, FetchingEntry, FetchedEntry} \cup {ErrorEntry(e) : e \in Errors}

(* The entries appended to the log in this step. *)
Added == SubSeq(logs', Len(logs) + 1, Len(logs'))

(* C16, as stated: when an invocation that passed the guard has exited, the
   log holds, in this order, a cycle-start entry, an availability entry and
   an outcome entry, on every path. *)
C16_ThreeEntriesOnEveryPath ==
  \A t \in Tasks :
     (task[t].pc \in ExitedPc /\ task[t].path # "rejected") =>
        \E i, j, k \in DOMAIN logs :
           /\ i < j /\ j < k
           /\ logs[i] = StartEntry
           /\ logs[j] \in {AvailEntry("true"), AvailEntry("false")}
           /\ logs[k] \in LaterEntries

(* C16, as the code behaves: an invocation that passes the guard appends, as
   it goes, in debug mode the DEV notice and nothing else; otherwise the
   cycle-start entry, then the availability entry only if the check returned,
   then "Fetching Update" and "Update fetched" as it proceeds, and an outcome
   entry (ERROR) only when a step threw: a return of false for want of an
   update and a return of true append nothing at exit. *)
C16_EntriesPerPath ==
  [][/\ PassesGuardNow =>
          LastLog(logs') = IF dev THEN DevEntry ELSE StartEntry
     /\ \A t \in Tasks :
          (task[t].pc \in InFlightPc /\ task'[t].pc # task[t].pc) =>
             LET a == task'[t].avail
                 err == ErrorEntry(task'[t].cause)
                 failed == task'[t].path = "error"
             IN CASE task[t].pc = "check" /\ task'[t].pc = "fetch" ->
                       Added = <<AvailEntry(a), FetchingEntry>>
                  [] task[t].pc = "check" /\ task'[t].path = "unavailable" ->
                       Added = <<AvailEntry(a)>>
                  [] task[t].pc = "check" /\ failed /\ a = "none" ->
                       Added = <<err>>
                  [] task[t].pc = "check" /\ failed /\ a # "none" ->
                       Added = <<AvailEntry(a), FetchingEntry, err>>
                  [] task[t].pc = "fetch" /\ task'[t].pc = "reload" ->
                       Added = <<FetchedEntry>>
                  [] task[t].pc = "fetch" /\ failed ->
                       Added = <<err>>
                  [] task[t].pc = "reload" /\ failed ->
                       Added = <<err>>
                  [] task[t].pc = "reload" /\ task'[t].path = "success" ->
                       Added = <<>>
                  [] OTHER -> FALSE]_vars

C16_Witness ==
  \E t \in Tasks :
     /\ task[t].pc = "returned" /\ task[t].path = "unavailable"
     /\ LastLog(logs) = AvailEntry("false")
     /\ \A i \in DOMAIN logs : logs[i] \notin LaterEntries

(* The event handled in this step is the first foreground edge the hook sees. *)
FirstEdgeNow == EventNow /\ hist.edges = 0 /\ hist'.edges = 1

(* The edge handled in this step was found due (line 200). *)
DueNow == hist'.ev.elapsed > hist'.ev.minRefresh

(* C17, as stated: lastTimeCheck never decreases, whoever invokes the cycles;
   it starts at 0, so with updateOnStartup false the first foreground edge is
   always due. *)
C17_MonotoneAndFirstEdgeDue ==
  [][/\ lastTimeCheck' >= lastTimeCheck
     /\ (FirstEdgeNow /\ ~opts.updateOnStartup) => DueNow]_vars

(* C17, as the code behaves: lastTimeCheck never decreases; it starts at 0,
   so with updateOnStartup false the first foreground edge is due when no
   invocation of doUpdateIfAvailable has been made before it.  A direct
   invocation made earlier has stamped lastTimeCheck, and the first edge is
   then due only if more than minRefreshSeconds have passed since. *)
C17_MonotoneAndFirstEdgeDueIfUnstamped ==
  [][/\ lastTimeCheck' >= lastTimeCheck
     /\ (FirstEdgeNow /\ ~opts.updateOnStartup /\ hist.issued = 0) => DueNow
     /\ (FirstEdgeNow /\ hist.issued > 0) =>
           (DueNow <=> getUnixEpoch - lastTimeCheck > opts.minRefreshSeconds)]_vars

C17_Witness ==
  /\ ~opts.updateOnStartup /\ hist.edges = 1 /\ hist.issued = 1
  /\ hist.ev.invoked /\ hist.ev.elapsed >= Epoch0
  /\ lastTimeCheck >= Epoch0

(* The calls of a cycle that goes all the way, for the options o. *)
FullCalls(o) ==
  IF o.hasBeforeDownload THEN <<"check", "beforeDownload", "fetch", "reload">>
                         ELSE <<"check", "fetch", "reload">>

IsPrefix(p, q) == Len(p) <= Len(q) /\ SubSeq(q, 1, Len(p)) = p

(* C18: the calls of one cycle are a beginning of check, beforeDownload (if
   given), fetch, reload, each made at most once; fetch is called only after
   the check has answered, with isAvailable or force; reload only after fetch
   has completed without error; and doUpdateIfAvailable returns true only when
   all three service calls were made and none threw. *)
C18_CallOrder ==
  \A t \in Tasks :
     /\ IsPrefix(task[t].calls, FullCalls(task[t].o))
     /\ Called(t, "fetch") =>
           /\ task[t].avail = "true" \/ (task[t].avail = "false" /\ task[t].o.force)
           /\ task[t].cause \notin CheckErrors \cup CallbackErrors
     /\ Called(t, "reload") => task[t].pc # "fetch" /\ task[t].cause \notin FetchErrors
     /\ task[t].outcome = "true" =>
           /\ task[t].pc = "returned" /\ task[t].cause = "none"
           /\ task[t].calls = FullCalls(task[t].o)

C18_Witness ==
  \E t \in Tasks :
     /\ task[t].outcome = "true"
     /\ task[t].calls = <<"check", "beforeDownload", "fetch", "reload">>

(* C20: every step of the program leaves the entries already in the log where
   they are and as they are, adding entries only at the end: the log before
   the step is a prefix of the log after it. *)
C20_LogsAppendOnly ==
  [][IsPrefix(logs, logs')]_vars

C20_Witness ==
  /\ Len(logs) >= 4 /\ logs[1] = StartEntry
  /\ hist.events = 1 /\ hist.issued = 1
  /\ \E i \in DOMAIN logs : logs[i] = AvailEntry("true")

(* C19: when every service call completes, every invocation that passed the
   guard exits (or the application restarts), isUpdating becomes false again,
   and the startup chain ends, after at most maxRetries + 1 attempts; and as
   long as the invocation in flight makes no step, isUpdating stays true and
   every invocation issued meanwhile is rejected by the guard. *)
C19_CyclesTerminate ==
  /\ \A t \in Tasks : (task[t].pc \in InFlightPc) ~> (task[t].pc \in ExitedPc \/ restarted)
  /\ isUpdating ~> (~isUpdating \/ restarted)
  /\ (initPc = "running") ~> (initPc \in {"done", "caught"} \/ restarted)
  /\ [](hist.attempts <= opts.maxRetries + 1)
  /\ [][(isUpdating /\ \A t \in InFlight : task'[t].pc = task[t].pc) =>
          /\ isUpdating'
          /\ hist'.issued # hist.issued => task'[hist'.last].path = "rejected"]_vars

C19_Witness ==
  /\ initPc = "caught" /\ hist.attempts = opts.maxRetries + 1
  /\ ~isUpdating /\ InFlight = {}
  /\ task[STask].pc = "thrown"
  /\ \E d \in DTasks : task[d].path = "rejected" /\ task[d].pc = "returned"
====
